---- MODULE Spec2Model ----
(***************************************************************************)
(* Model of claude-langfuse-monitor (index.js, class Monitor): a watcher   *)
(* that reads Claude Code conversation files (.jsonl) and forwards each    *)
(* user/assistant entry to a Langfuse sink as a trace or a generation.     *)
(*                                                                         *)
(* Strings whose characters the code inspects (path segments, message      *)
(* text) are sequences of one-character strings.                           *)
(***************************************************************************)
EXTENDS Integers, Sequences, FiniteSets, TLC

\* ------------------------------------------------------------------ bounds

\* Lines the environment writes to conversation files during one run.
MaxWrites == 2

\* ------------------------------------------------------ program constants

\* index.js:21  historyHours: options.historyHours || 24
DefaultHistoryHours == 24
\* index.js:123  this.options.historyHours * 3600 * 1000
MsPerHour == 3600000
\* index.js:223  text.substring(0, 60)
PreviewLen == 60
\* index.js:271  this.processedMessages.size % 10 === 0
FlushEvery == 10

\* ----------------------------------------------------------- string values

S_projects == <<"p","r","o","j","e","c","t","s">>
S_jsonl    == <<".","j","s","o","n","l">>
S_hi       == <<"h","i">>
S_Hello    == <<"H","e","l","l","o">>

\* The current time of the run (Date.now(), in ms) and the two modification
\* times a file can have: long before the look-back window, or now.
Now     == 100000000
OldTime == 1000000

\* Path segments, as path.sep splits them.
SegHome  == <<"h">>
SegDot   == <<".","c","l","a","u","d","e">>
SegABC   == <<"a","-","b","-","c">>
SegP2    == <<"p","2">>
SegConv1 == <<"c","o","n","v","1">> \o S_jsonl
SegConv2 == <<"c","o","n","v","2">> \o S_jsonl
SegTop   == <<"t","o","p">> \o S_jsonl

\* <home>/.claude/projects/a-b-c/conv1.jsonl
PathA == << <<>>, SegHome, SegDot, S_projects, SegABC, SegConv1 >>
\* <home>/.claude/projects/p2/conv2.jsonl
PathB == << <<>>, SegHome, SegDot, S_projects, SegP2, SegConv2 >>
\* <home>/.claude/projects/top.jsonl : matched by **/*.jsonl, but only one
\* segment follows the anchor
PathTop == << <<>>, SegHome, SegDot, S_projects, SegTop >>

Paths == {PathA, PathB, PathTop}

\* ------------------------------------------------------------ JS values

\* A value of the "text" field of a structured payload. t is the JS type
\* ("undefined" when the field is absent), s the characters of a string or
\* the digits of a number.
StrVal(chars) == [t |-> "string", s |-> chars]
NumVal(digits) == [t |-> "number", s |-> digits]
UndefinedVal == [t |-> "undefined", s |-> <<>>]
NullVal == [t |-> "null", s |-> <<>>]

\* JS truthiness of such a value (the operand of ||).
Truthy(v) ==
    CASE v.t = "string" -> v.s # <<>>
      [] v.t = "number" -> v.s # <<"0">>
      [] OTHER -> FALSE

\* One content block of a structured payload (message.content[i]).
TextBlock(chars) == [type |-> "text", text |-> chars, name |-> <<>>]
ToolUse(name) == [type |-> "tool_use", text |-> <<>>, name |-> name]
ToolResult(chars) == [type |-> "tool_result", text |-> chars, name |-> <<>>]

\* The message payload of an entry (entry.message). shape is its JS type:
\* "undefined" (absent), "null", "number", "boolean", "string" or "object".
Payload(shape, str, text, content) ==
    [shape |-> shape, str |-> str, text |-> text, content |-> content]
NoMessage == Payload("undefined", <<>>, UndefinedVal, <<>>)
StringMessage(chars) == Payload("string", chars, UndefinedVal, <<>>)
ObjectMessage(text, content) == Payload("object", <<>>, text, content)

\* entry.uuid when the field is absent or empty: falsy either way.
NoUuid == ""
\* entry.timestamp when the field is absent (falsy).
NoTimestamp == 0

\* A parsed line: an entry of a conversation file.
Entry(type, uuid, message, timestamp) ==
    [type |-> type, uuid |-> uuid, message |-> message,
     timestamp |-> timestamp,
     parentUuid |-> "parent-of-" \o uuid, requestId |-> "req-of-" \o uuid,
     gitBranch |-> "main", cwd |-> "/work"]

\* A non-empty line of a file: text that JSON.parse rejects, the JSON value
\* null, or a JSON object (an entry).
Malformed == [json |-> "invalid"]
JsonNull  == [json |-> "null"]
Line(entry) == [json |-> "object", entry |-> entry]
\* A line that is empty or blank.
Blank     == [json |-> "blank"]

\* ------------------------------------------------------- pure functions

\* Array.prototype.indexOf: the first index (1-based here) of x in seq, 0
\* when absent (JS: -1).
IndexOf(seq, x) ==
    IF \E i \in 1..Len(seq) : seq[i] = x
    THEN CHOOSE i \in 1..Len(seq) :
            seq[i] = x /\ \A j \in 1..(i - 1) : seq[j] # x
    ELSE 0

\* A decoder that leaves the encoded segment as it is.
ReplaceDash_Keep(chars) == chars

\* String.prototype.replace(/-/g, '/')
ReplaceDash(chars) ==
    [i \in 1..Len(chars) |-> IF chars[i] = "-" THEN "/" ELSE chars[i]]

\* String.prototype.replace(/\n/g, ' ')
ReplaceNewline(chars) ==
    [i \in 1..Len(chars) |-> IF chars[i] = "\n" THEN " " ELSE chars[i]]

\* String.prototype.substring(0, n)
Substring0(chars, n) ==
    SubSeq(chars, 1, IF Len(chars) < n THEN Len(chars) ELSE n)

EndsWith(chars, suffix) ==
    /\ Len(chars) >= Len(suffix)
    /\ SubSeq(chars, Len(chars) - Len(suffix) + 1, Len(chars)) = suffix

\* path.basename(filepath, ext): the last segment, without ext when it ends
\* with ext and is longer than ext.
Basename(pathParts, ext) ==
    LET base == pathParts[Len(pathParts)]
    IN IF EndsWith(base, ext) /\ Len(base) > Len(ext)
       THEN SubSeq(base, 1, Len(base) - Len(ext))
       ELSE base

\* projectPath.split('/').pop(): what follows the last '/'.
LastSegment(chars) ==
    LET cut == IF \E i \in 1..Len(chars) : chars[i] = "/"
               THEN CHOOSE i \in 1..Len(chars) :
                       chars[i] = "/"
                       /\ \A j \in (i + 1)..Len(chars) : chars[j] # "/"
               ELSE 0
    IN SubSeq(chars, cut + 1, Len(chars))

\* crypto.createHash('md5').update(data).digest('hex'), taken as
\* collision-free: the digest stands for its input.
Md5(data) == [md5 |-> data]

\* index.js:171-172
SessionIdOf(projectPath, conversationId) ==
    Md5(projectPath \o <<":">> \o conversationId)

\* A layout test that only looks for the anchor.
OutsideLayout_AnchorOnly(pathParts) == IndexOf(pathParts, S_projects) = 0

\* index.js:161: the path is outside the expected layout.
OutsideLayout(pathParts) ==
    LET projectsIdx == IndexOf(pathParts, S_projects)
    IN projectsIdx = 0 \/ projectsIdx >= Len(pathParts) - 1

\* index.js:165-166
ProjectPathOf(pathParts) ==
    ReplaceDash(pathParts[IndexOf(pathParts, S_projects) + 1])

\* A conversation id that keeps the extension.
ConversationIdOf_WithExtension(pathParts) == pathParts[Len(pathParts)]

\* index.js:167
ConversationIdOf(pathParts) == Basename(pathParts, S_jsonl)

\* An extraction without the plain-string branch of index.js:215-216.
ExtractText_ObjectOnly(message) ==
    IF message.shape = "object"
    THEN IF Truthy(message.text) THEN message.text ELSE StrVal(<<>>)
    ELSE StrVal(<<>>)

\* index.js:212-217: the text extracted from the payload, a JS value.
ExtractText(message) ==
    IF message.shape = "object"
    THEN IF Truthy(message.text) THEN message.text ELSE StrVal(<<>>)
    ELSE IF message.shape = "string"
         THEN StrVal(message.str)
         ELSE StrVal(<<>>)

\* ------------------------------------------------------------------ state

VARIABLES
    ctorArgs,             \* the options object given to new Monitor(...)
    options,              \* this.options
    messageCount,         \* this.messageCount
    config,               \* this.config
    rootExists,           \* fs.existsSync(<home>/.claude/projects)
    files,                \* the lines of each file under the root
    mtime,                \* stat.mtimeMs of each file, 0 while it does not exist
    writes,               \* lines written by the environment so far
    pc,                   \* where start() and the process are
    conversations,        \* processExistingHistory: the files still to process
    pending,              \* watcher: paths with an add/change event to deliver
    pass,                 \* the running call of processConversationFile
    processedMessages,    \* this.processedMessages
    conversationSessions, \* this.conversationSessions
    sinkCalls,            \* the calls received by the Langfuse client, in order
    settled,              \* how many of the flushAsync promises have settled
    consoleLog,           \* per-message lines printed with console.log
    consoleError,         \* lines printed with console.error
    lastRead              \* history: the lines of each file's last completed
                          \* call of processConversationFile, or that the
                          \* last call left the file aside

vars == <<ctorArgs, options, messageCount, config, rootExists, files, mtime, writes,
          pc, conversations, pending, pass, processedMessages,
          conversationSessions, sinkCalls, settled, consoleLog, consoleError,
          lastRead>>

monitorVars == <<ctorArgs, options, messageCount, config>>
fsVars == <<rootExists, files, mtime, writes>>
msgVars == <<processedMessages, sinkCalls, consoleLog, consoleError>>

\* A field that no code assigns.
Undefined == "undefined"

\* No call of processConversationFile has run to its end on the file.
NeverRead == [read |-> FALSE, skipped |-> FALSE, lines |-> <<>>]
WasRead(lines) == [read |-> TRUE, skipped |-> FALSE, lines |-> lines]
\* The last call on the file returned at index.js:162, before any read.
Skipped == [read |-> FALSE, skipped |-> TRUE, lines |-> <<>>]

\* No call of processConversationFile is running.
NoPass == [filepath |-> <<>>, lines |-> <<>>, i |-> 0,
           sessionId |-> Md5(<<>>), projectPath |-> <<>>,
           conversationId |-> <<>>]

\* A constructor that makes the client in dry-run mode too.
HasLangfuse_Always == TRUE

\* index.js:33-39: this.langfuse exists unless dry-run.
HasLangfuse == ~options.dryRun

Exists(p) == mtime[p] # 0

\* index.js:19-24: the constructor's options; `x || d` yields d for a falsy x.
MonitorOptions(args) ==
    [historyHours |-> IF args.historyHours = 0 THEN DefaultHistoryHours
                      ELSE args.historyHours,
     daemon |-> FALSE,
     dryRun |-> args.dryRun]

\* ---------------------------------------------------------- configuration

\* index.js:52: the backend address used when LANGFUSE_HOST is not set
DefaultHost == StrVal(<<"http://localhost:3001">>)
\* A non-empty public key and a non-empty secret key.
PublicKey == StrVal(<<"p", "k">>)
SecretKey == StrVal(<<"s", "k">>)

\* The object with the fields host, publicKey and secretKey: the content of
\* ~/.claude-langfuse/config.json or the Langfuse variables of process.env.
\* A field that is absent is UndefinedVal.
Settings(host, publicKey, secretKey) ==
    [host |-> host, publicKey |-> publicKey, secretKey |-> secretKey]

\* index.js:44-46: fs.existsSync(configFile) is false
NoConfigFile == [exists |-> FALSE, json |-> Settings(UndefinedVal, UndefinedVal, UndefinedVal)]
\* index.js:46-49: the file exists and JSON.parse returns this object
ConfigFile(json) == [exists |-> TRUE, json |-> json]

\* index.js:52-54: x || d
OrDefault(v, d) == IF Truthy(v) THEN v ELSE d

\* index.js:42-57: the object loadConfig returns
loadConfig(configFile, env) ==
    IF configFile.exists
    THEN configFile.json
    ELSE Settings(OrDefault(env.host, DefaultHost),
                  OrDefault(env.publicKey, StrVal(<<>>)),
                  OrDefault(env.secretKey, StrVal(<<>>)))

\* No config file, both keys in the environment.
Configured ==
    loadConfig(NoConfigFile, Settings(UndefinedVal, PublicKey, SecretKey))

\* A test that is content with the public key.
HasCredentials_PublicOnly == Truthy(config.publicKey)

\* index.js:295: this.config.publicKey && this.config.secretKey
HasCredentials == Truthy(config.publicKey) /\ Truthy(config.secretKey)

\* ------------------------------------------------------- processMessage

\* index.js:235-250: the argument of langfuse.trace
TraceRecord(entry, sessionId, projectPath, conversationId, text, timestamp) ==
    [op |-> "trace",
     id |-> entry.uuid,
     name |-> "claude_code_user",
     sessionId |-> sessionId,
     userId |-> "michael@oboyle.co",
     metadata |-> [project |-> projectPath,
                   conversationId |-> conversationId,
                   gitBranch |-> entry.gitBranch,
                   cwd |-> entry.cwd,
                   messageType |-> entry.type,
                   source |-> "claude_code_automatic"],
     input |-> text,
     timestamp |-> timestamp]

\* A generation linked to itself instead of its parent.
GenerationRecord_SelfParent(entry, projectPath, conversationId, text, timestamp) ==
    [op |-> "generation",
     id |-> entry.uuid,
     traceId |-> entry.uuid,
     name |-> "claude_response",
     model |-> "claude-sonnet-4-5-20250929",
     metadata |-> [project |-> projectPath,
                   conversationId |-> conversationId,
                   requestId |-> entry.requestId,
                   messageType |-> entry.type,
                   source |-> "claude_code_automatic"],
     output |-> text,
     startTime |-> timestamp,
     endTime |-> timestamp]

\* index.js:252-267: the argument of langfuse.generation
GenerationRecord(entry, projectPath, conversationId, text, timestamp) ==
    [op |-> "generation",
     id |-> entry.uuid,
     traceId |-> entry.parentUuid,
     name |-> "claude_response",
     model |-> "claude-sonnet-4-5-20250929",
     metadata |-> [project |-> projectPath,
                   conversationId |-> conversationId,
                   requestId |-> entry.requestId,
                   messageType |-> entry.type,
                   source |-> "claude_code_automatic"],
     output |-> text,
     startTime |-> timestamp,
     endTime |-> timestamp]

\* index.js:272 and index.js:108
FlushCall == [op |-> "flushAsync"]
ShutdownCall == [op |-> "shutdownAsync"]

\* index.js:222-226: the line printed for a message
PreviewLine(msgType, projectPath, text) ==
    [icon |-> IF msgType = "user" THEN "user" ELSE "robot",
     projectName |-> LastSegment(projectPath),
     preview |-> ReplaceNewline(Substring0(text, PreviewLen))]

\* index.js:276
TraceError(entry) == [error |-> "Error creating trace", id |-> entry.uuid]

\* What a call of processMessage leaves behind: the new values of the fields
\* and logs it touches, and whether it ended by throwing.
Outcome(pm, sink, log, err, threw) ==
    [processedMessages |-> pm, sinkCalls |-> sink, consoleLog |-> log,
     consoleError |-> err, threw |-> threw]

NoEffect == Outcome(processedMessages, sinkCalls, consoleLog, consoleError, FALSE)

\* A forwarding step that empties the processed-id set at each flush.
Forward_ResetAtFlush(entry, sessionId, projectPath, conversationId, text, pm, log, sinkOk) ==
    LET timestamp == IF entry.timestamp # NoTimestamp THEN entry.timestamp
                     ELSE Now
        record == IF entry.type = "user"
                  THEN TraceRecord(entry, sessionId, projectPath,
                                   conversationId, text, timestamp)
                  ELSE GenerationRecord(entry, projectPath, conversationId,
                                        text, timestamp)
    IN IF Cardinality(pm) % FlushEvery = 0
       THEN Outcome({}, sinkCalls \o <<record, FlushCall>>, log, consoleError,
                    FALSE)
       ELSE Outcome(pm, sinkCalls \o <<record>>, log, consoleError, FALSE)

\* A forwarding step that leaves the id out of the processed-id set.
Forward_Unrecorded(entry, sessionId, projectPath, conversationId, text, pm, log, sinkOk) ==
    LET timestamp == IF entry.timestamp # NoTimestamp THEN entry.timestamp
                     ELSE Now
        record == IF entry.type = "user"
                  THEN TraceRecord(entry, sessionId, projectPath,
                                   conversationId, text, timestamp)
                  ELSE GenerationRecord(entry, projectPath, conversationId,
                                        text, timestamp)
    IN Outcome(processedMessages, sinkCalls \o <<record>>, log, consoleError,
               FALSE)

\* index.js:232-277: the forwarding step, for an entry whose id is recorded
\* as pm and whose preview is printed as log. sinkOk: the sink accepts the
\* trace/generation call (it throws otherwise).
Forward(entry, sessionId, projectPath, conversationId, text, pm, log, sinkOk) ==
    LET timestamp == IF entry.timestamp # NoTimestamp THEN entry.timestamp
                     ELSE Now
        record == IF entry.type = "user"
                  THEN TraceRecord(entry, sessionId, projectPath,
                                   conversationId, text, timestamp)
                  ELSE GenerationRecord(entry, projectPath, conversationId,
                                        text, timestamp)
        flush == IF Cardinality(pm) % FlushEvery = 0 THEN <<FlushCall>>
                 ELSE <<>>
    IN IF sinkOk
       THEN Outcome(pm, sinkCalls \o <<record>> \o flush, log, consoleError,
                    FALSE)
       ELSE Outcome(pm, sinkCalls, log,
                    Append(consoleError, TraceError(entry)), FALSE)

\* A kind test that lets system entries through.
IsIgnoredKind_SystemToo(msgType) ==
    msgType \notin {"user", "assistant", "system"}

\* index.js:199: !['user', 'assistant'].includes(msgType)
IsIgnoredKind(msgType) == msgType \notin {"user", "assistant"}

\* A monitor that does not test the id for presence.
HasNoUuid_Never(uuid) == FALSE

\* index.js:204: !uuid
HasNoUuid(uuid) == uuid = NoUuid

\* A monitor that forgets to look the id up.
IsDuplicate_Never(uuid) == FALSE

\* index.js:204: this.processedMessages.has(uuid)
IsDuplicate(uuid) == uuid \in processedMessages

\* A monitor that forwards in dry-run mode too.
IsDryRun_Never == FALSE

\* index.js:228: this.options.dryRun
IsDryRun == options.dryRun

\* index.js:196-278
processMessage(entry, sessionId, projectPath, conversationId, sinkOk) ==
    IF IsIgnoredKind(entry.type)
    THEN NoEffect
    ELSE IF HasNoUuid(entry.uuid) \/ IsDuplicate(entry.uuid)
    THEN NoEffect
    ELSE LET pm == processedMessages \cup {entry.uuid}
             text == ExtractText(entry.message)
         IN IF text.t # "string"
            THEN \* text.substring is not a function: TypeError
                 Outcome(pm, sinkCalls, consoleLog, consoleError, TRUE)
            ELSE LET log == Append(consoleLog,
                                   PreviewLine(entry.type, projectPath, text.s))
                 IN IF IsDryRun
                    THEN Outcome(pm, sinkCalls, log, consoleError, FALSE)
                    ELSE Forward(entry, sessionId, projectPath, conversationId,
                                 text.s, pm, log, sinkOk)

\* ---------------------------------------------- processConversationFile

\* Faults (a failing file read, a throwing sink call) injected in one run;
\* each one leaves a line in consoleError.
MaxFaults == 1

MayFail == Len(consoleError) < MaxFaults

\* index.js:180: content.split('\n').filter(line => line.trim())
IsNonBlank(line) == line.json # "blank"
\* A loop that walks the lines from the last one to the first.
NonBlankLines_Reversed(content) ==
    LET kept == SelectSeq(content, IsNonBlank)
    IN [i \in 1..Len(kept) |-> kept[Len(kept) + 1 - i]]

NonBlankLines(content) == SelectSeq(content, IsNonBlank)

\* index.js:192
ReadError(filepath) == [error |-> "Error processing", filepath |-> filepath]

\* A cache that holds the last path only.
CachedSessions_LastOnly(filepath, sessionId) == filepath :> sessionId

\* index.js:170-174: the session cache after the get-or-create step
CachedSessions(filepath, sessionId) ==
    IF filepath \in DOMAIN conversationSessions
    THEN conversationSessions
    ELSE conversationSessions @@ (filepath :> sessionId)

\* index.js:155-180 and 191-193: the call up to the loop over the lines.
\* readOk: fs.readFileSync returns the content (it throws otherwise).
processConversationFile(filepath, readOk) ==
    IF OutsideLayout(filepath)
    THEN /\ lastRead' = [lastRead EXCEPT ![filepath] = Skipped]
         /\ UNCHANGED <<conversationSessions, pass, consoleError>>
    ELSE LET projectPath == ProjectPathOf(filepath)
             conversationId == ConversationIdOf(filepath)
             sessions ==
                 CachedSessions(filepath,
                                SessionIdOf(projectPath, conversationId))
             lines == NonBlankLines(files[filepath])
         IN /\ conversationSessions' = sessions
            /\ IF readOk
               THEN /\ pass' = IF lines = <<>> THEN NoPass
                               ELSE [filepath |-> filepath, lines |-> lines,
                                     i |-> 1, sessionId |-> sessions[filepath],
                                     projectPath |-> projectPath,
                                     conversationId |-> conversationId]
                    /\ lastRead' = IF lines = <<>>
                                   THEN [lastRead EXCEPT ![filepath] = WasRead(lines)]
                                   ELSE lastRead
                    /\ UNCHANGED consoleError
               ELSE /\ pass' = NoPass
                    /\ consoleError' = Append(consoleError, ReadError(filepath))
                    /\ UNCHANGED lastRead

\* A per-line handler that logs what processMessage throws.
LineOutcome_Logged(line, sinkOk) ==
    IF line.json = "object"
    THEN LET r == processMessage(line.entry, pass.sessionId, pass.projectPath,
                                 pass.conversationId, sinkOk)
         IN IF r.threw
            THEN [r EXCEPT !.consoleError =
                     Append(consoleError, TraceError(line.entry))]
            ELSE r
    ELSE NoEffect

\* The result of one iteration of the loop of index.js:182-189 on a line:
\* JSON.parse and processMessage inside try/catch, every exception swallowed.
LineOutcome(line, sinkOk) ==
    IF line.json = "object"
    THEN processMessage(line.entry, pass.sessionId, pass.projectPath,
                        pass.conversationId, sinkOk)
    ELSE \* JSON.parse throws, or entry.type of null throws
         NoEffect

\* A loop that gives the file up at the first line it cannot parse.
AfterLine_StopAtInvalid ==
    IF pass.i = Len(pass.lines) \/ pass.lines[pass.i].json # "object"
    THEN NoPass
    ELSE [pass EXCEPT !.i = pass.i + 1]

\* index.js:182 and 186-188: the loop goes on to the next line, whatever
\* the line at hand did; after the last line the call returns.
AfterLine ==
    IF pass.i = Len(pass.lines) THEN NoPass
    ELSE [pass EXCEPT !.i = pass.i + 1]

\* index.js:182-189: one iteration of the loop over the lines of the file.
ProcessLine ==
    /\ pass # NoPass
    /\ pc # "killed"
    /\ \E sinkOk \in BOOLEAN :
          /\ sinkOk \/ MayFail
          /\ LET r == LineOutcome(pass.lines[pass.i], sinkOk)
             IN /\ processedMessages' = r.processedMessages
                /\ sinkCalls' = r.sinkCalls
                /\ consoleLog' = r.consoleLog
                /\ consoleError' = r.consoleError
    /\ pass' = AfterLine
    /\ lastRead' = IF pass.i = Len(pass.lines)
                   THEN [lastRead EXCEPT ![pass.filepath] = WasRead(pass.lines)]
                   ELSE lastRead
    /\ UNCHANGED <<monitorVars, settled, fsVars, pc, conversations, pending,
                   conversationSessions>>

\* ------------------------------------------------------------ environment

User1     == Entry("user", "m1", ObjectMessage(StrVal(S_hi), <<>>), 1)
Assist1   == Entry("assistant", "m1", StringMessage(S_Hello), NoTimestamp)
Assist2   == Entry("assistant", "m2", ObjectMessage(StrVal(S_Hello), <<>>), 2)
System2   == Entry("system", "m2", StringMessage(S_hi), 2)
UserNum3  == Entry("user", "m3", ObjectMessage(NumVal(<<"5">>), <<>>), 1)

\* The lines Claude Code (or anything else) appends to a conversation file.
LinePool == {Line(User1), Line(Assist1), Line(Assist2), Line(System2),
             Line(UserNum3), Malformed}

\* A line is appended to a file under the root, creating the file if needed.
\* Before start() the write may date from long ago. The watcher, once it
\* runs, has an add or change event for the file.
EnvWrite ==
    /\ writes < MaxWrites
    /\ rootExists
    /\ pc \in {"new", "backfill", "watching"}
    /\ \E p \in Paths, line \in LinePool, t \in {OldTime, Now} :
          /\ p = PathTop => line = Malformed
          /\ t = OldTime => pc = "new"
          /\ files' = [files EXCEPT ![p] = Append(@, line)]
          /\ mtime' = [mtime EXCEPT ![p] = t]
    /\ writes' = writes + 1
    /\ pending' = IF pc = "watching"
                  THEN pending \cup {p \in Paths : files'[p] # files[p]}
                  ELSE pending
    /\ UNCHANGED <<monitorVars, settled, rootExists, pc, conversations, pass, lastRead,
                   conversationSessions, msgVars>>

\* ------------------------------------------------------------------ start

\* The orders in which a directory listing can return the files of S.
OrdersOf(S) ==
    {q \in [1..Cardinality(S) -> S] :
        \A i, j \in 1..Cardinality(S) : i # j => q[i] # q[j]}

\* index.js:123
CutoffTime == Now - options.historyHours * MsPerHour

\* A test that leaves out a file modified exactly at the cutoff.
IsRecent_Strict(mtimeMs) == mtimeMs > CutoffTime

\* index.js:136
IsRecent(mtimeMs) == mtimeMs >= CutoffTime

\* index.js:60: path.join(os.homedir(), '.claude', 'projects')
ProjectsDir == << <<>>, SegHome, SegDot, S_projects >>

\* The path lies below the directory.
IsBelow(dir, p) == Len(dir) < Len(p) /\ SubSeq(p, 1, Len(dir)) = dir

\* index.js:127-130: the entries of a directory, each as its full path
DirEntries(dir) ==
    {SubSeq(p, 1, Len(dir) + 1) :
        p \in {q \in DOMAIN files : Exists(q) /\ IsBelow(dir, q)}}

\* index.js:132: entry.isDirectory()
IsDirectory(fullPath) ==
    \E q \in DOMAIN files : Exists(q) /\ IsBelow(fullPath, q)

RECURSIVE findConversations(_), ResultsFrom(_, _)

\* index.js:129-140: the results the loop can collect from the entries
\* order[i], order[i+1], ... of a directory listing.
ResultsFrom(order, i) ==
    IF i > Len(order)
    THEN {<<>>}
    ELSE LET fullPath == order[i]
             here == IF IsDirectory(fullPath)
                     THEN findConversations(fullPath)
                     ELSE IF /\ EndsWith(fullPath[Len(fullPath)], S_jsonl)
                             /\ IsRecent(mtime[fullPath])
                          THEN {<<fullPath>>}
                          ELSE {<<>>}
         IN {a \o b : a \in here, b \in ResultsFrom(order, i + 1)}

\* index.js:125-143: the lists findConversations(dir) can return, one for
\* each order in which the directories can be listed.
findConversations(dir) ==
    UNION {ResultsFrom(order, 1) : order \in OrdersOf(DirEntries(dir))}

\* The files the history scan is to return: the .jsonl files at any depth
\* under the root last modified at or after now minus the look-back window.
RecentConversations ==
    {p \in DOMAIN files :
        /\ Exists(p)
        /\ IsBelow(ProjectsDir, p)
        /\ EndsWith(p[Len(p)], S_jsonl)
        /\ mtime[p] >= Now - options.historyHours * MsPerHour}

\* index.js:82-100: the watcher is created; with ignoreInitial: false it has
\* an add event for every matching file that exists.
WatcherCreated ==
    /\ pc' = "watching"
    /\ pending' = {p \in DOMAIN files : /\ Exists(p)
                                        /\ IsBelow(ProjectsDir, p)
                                        /\ EndsWith(p[Len(p)], S_jsonl)}

\* A check that finds the directory whatever the file system holds.
ProjectsDirMissing_Never == FALSE

\* index.js:59-67: getClaudeProjectsDir throws 'Claude projects directory
\* not found' when fs.existsSync says the directory is not there.
ProjectsDirMissing == ~rootExists

\* index.js:69-100 and 119-146: start() up to the first file of the backfill,
\* or up to the watcher when the backfill is skipped; index.js:314-319 and
\* bin/claude-langfuse.js:35-40 when getClaudeProjectsDir or the scan throws.
Start ==
    /\ pc = "new"
    /\ IF ProjectsDirMissing
       THEN /\ pc' = "failed"
            /\ UNCHANGED <<conversations, pending>>
       ELSE IF options.historyHours > 0
       THEN \E scanOk \in BOOLEAN :
               IF scanOk
               THEN /\ pc' = "backfill"
                    /\ \E found \in findConversations(ProjectsDir) :
                          conversations' = found
                    /\ UNCHANGED pending
               ELSE \* fs.readdirSync or fs.statSync throws (index.js:127,
                    \* 135): no try encloses the scan, start() rejects
                    /\ pc' = "failed"
                    /\ UNCHANGED <<conversations, pending>>
       ELSE /\ WatcherCreated
            /\ UNCHANGED conversations
    /\ UNCHANGED <<monitorVars, settled, fsVars, pass, lastRead, conversationSessions, msgVars>>

\* index.js:148-150: the next file of the backfill loop
BackfillFile ==
    /\ pc = "backfill"
    /\ pass = NoPass
    /\ conversations # <<>>
    /\ \E readOk \in BOOLEAN :
          /\ readOk \/ MayFail
          /\ processConversationFile(Head(conversations), readOk)
    /\ conversations' = Tail(conversations)
    /\ UNCHANGED <<monitorVars, settled, fsVars, pc, pending, processedMessages,
                   sinkCalls, consoleLog>>

\* A start() that does not wait for the loop over the scanned files.
BackfillDone_Early ==
    /\ pc = "backfill"
    /\ pass = NoPass
    /\ WatcherCreated
    /\ UNCHANGED <<monitorVars, settled, fsVars, conversations, pass, lastRead,
                   conversationSessions, msgVars>>

\* index.js:152 and 74-100: the backfill is over, start() goes on to watch
BackfillDone ==
    /\ pc = "backfill"
    /\ pass = NoPass
    /\ conversations = <<>>
    /\ WatcherCreated
    /\ UNCHANGED <<monitorVars, settled, fsVars, conversations, pass, lastRead,
                   conversationSessions, msgVars>>

\* index.js:94-100: the watcher delivers an add or change event
WatchEvent ==
    /\ pc = "watching"
    /\ pass = NoPass
    /\ \E p \in pending :
          /\ pending' = pending \ {p}
          /\ \E readOk \in BOOLEAN :
                /\ readOk \/ MayFail
                /\ processConversationFile(p, readOk)
    /\ UNCHANGED <<monitorVars, settled, fsVars, pc, conversations, processedMessages,
                   sinkCalls, consoleLog>>

\* index.js:103-105: SIGINT once the handler is installed; the handler runs
\* between callbacks and closes the watcher.
Sigint ==
    /\ pc = "watching"
    /\ pass = NoPass
    /\ pc' = "closing"
    /\ pending' = {}
    /\ UNCHANGED <<monitorVars, settled, fsVars, conversations, pass, lastRead,
                   conversationSessions, msgVars>>

\* index.js:103-113: the handler is an async function without try/catch; a
\* rejection of an awaited call leaves it as an unhandled rejection, and
\* process.exit(0) is not reached. What follows is the runtime's choice: it
\* prints the rejection and ends the process with a failure code (the
\* default), or it warns and the process stays.
Unhandled == {"aborted", "stuck"}

\* A handler that exits as soon as the watcher is closed.
CloseDone_ExitAtOnce ==
    /\ pc = "closing"
    /\ pc' = "exited"
    /\ UNCHANGED <<monitorVars, settled, fsVars, conversations, pending, pass, lastRead,
                   processedMessages, conversationSessions, sinkCalls,
                   consoleLog, consoleError>>

\* index.js:105-112: watcher.close() has resolved, or has rejected
CloseDone ==
    /\ pc = "closing"
    /\ \E closeOk \in BOOLEAN :
          /\ closeOk \/ MayFail
          /\ IF ~closeOk
             THEN /\ pc' \in Unhandled
                  /\ UNCHANGED sinkCalls
             ELSE IF HasLangfuse
             THEN /\ sinkCalls' = Append(sinkCalls, ShutdownCall)
                  /\ pc' = "shutdown"
             ELSE /\ pc' = "exited"
                  /\ UNCHANGED sinkCalls
    /\ UNCHANGED <<monitorVars, settled, fsVars, conversations, pending, pass, lastRead,
                   processedMessages, conversationSessions, consoleLog,
                   consoleError>>

\* index.js:108-112: shutdownAsync() has resolved, process.exit(0); or it
\* has rejected
ShutdownDone ==
    /\ pc = "shutdown"
    /\ \E shutdownOk \in BOOLEAN :
          /\ shutdownOk \/ MayFail
          /\ pc' \in IF shutdownOk THEN {"exited"} ELSE Unhandled
    /\ UNCHANGED <<monitorVars, settled, fsVars, conversations, pending, pass, lastRead,
                   conversationSessions, msgVars>>

\* A handler installed before the backfill: the interrupt starts the
\* shutdown between two files.
Kill_Graceful ==
    /\ pc = "backfill"
    /\ pass = NoPass
    /\ pc' = "closing"
    /\ UNCHANGED <<monitorVars, settled, fsVars, conversations, pending, pass,
                   lastRead, conversationSessions, msgVars>>

\* index.js:69-75: SIGINT while start() awaits the backfill, before the
\* handler of index.js:103 is installed: the process ends at once.
Kill ==
    /\ pc = "backfill"
    /\ pc' = "killed"
    /\ UNCHANGED <<monitorVars, settled, fsVars, conversations, pending, pass, lastRead,
                   conversationSessions, msgVars>>

\* index.js:272: the promises of flushAsync that have not settled yet; the
\* call is not awaited and has no catch.
Outstanding ==
    Cardinality({i \in 1..Len(sinkCalls) : sinkCalls[i] = FlushCall}) - settled

\* index.js:272: a promise returned by flushAsync settles. It does between
\* two callbacks, never inside the synchronous pass or the synchronous
\* backfill loop. Fulfilled, nothing follows. Rejected, it is an unhandled
\* rejection: the runtime ends the process (the default), or it warns and
\* the run goes on.
FlushSettled ==
    /\ Outstanding > 0
    /\ pass = NoPass
    /\ pc \in {"new", "watching", "closing", "shutdown"}
    /\ settled' = settled + 1
    /\ \E flushOk \in BOOLEAN :
          pc' \in IF flushOk THEN {pc} ELSE {pc, "aborted"}
    /\ UNCHANGED <<monitorVars, fsVars, conversations, pending, pass, lastRead,
                   conversationSessions, msgVars>>

\* index.js:281-307: the line checkStatus prints with console.log
StatusLine(text) == [status |-> text]

\* index.js:280-308: checkStatus, called by the status command on a new
\* monitor (bin/claude-langfuse.js:77-79); the command ends with it.
CheckStatus ==
    /\ pc = "new"
    /\ pc' = "status"
    /\ consoleLog' =
          consoleLog
          \o <<StatusLine("Claude Langfuse Monitor Status"), StatusLine("=====")>>
          \o IF ProjectsDirMissing
             THEN <<StatusLine("Claude projects directory not found")>>
             ELSE <<StatusLine("Claude projects directory found"),
                    StatusLine(ProjectsDir)>>
                  \o IF HasCredentials
                     THEN <<StatusLine("Langfuse credentials configured"),
                            StatusLine(<<"Host", config.host>>),
                            StatusLine("Monitor ready to run"),
                            StatusLine("Start with: claude-langfuse start")>>
                     ELSE <<StatusLine("Langfuse credentials not configured"),
                            StatusLine("Run: claude-langfuse config")>>
    /\ UNCHANGED <<monitorVars, settled, fsVars, conversations, pending, pass, lastRead,
                   conversationSessions, processedMessages, sinkCalls,
                   consoleError>>

\* ------------------------------------------------------------ specification

\* index.js:19-27: the state after new Monitor(args)
Constructed(args) ==
    /\ ctorArgs = args
    /\ options = MonitorOptions(args)
    /\ messageCount = Undefined
    /\ processedMessages = {}
    /\ conversationSessions = <<>>
    /\ sinkCalls = <<>>
    /\ settled = 0
    /\ consoleLog = <<>>
    /\ consoleError = <<>>
    /\ pc = "new"
    /\ conversations = <<>>
    /\ pending = {}
    /\ pass = NoPass

\* bin/claude-langfuse.js:29-33: the start command, without --quiet; the
\* look-back window is negative (no backfill) or 0 (the default applies).
CtorArgs == [historyHours : {-1, 0}, dryRun : BOOLEAN, quiet : {FALSE}]

Init ==
    /\ \E args \in CtorArgs : Constructed(args)
    /\ config = Configured
    /\ rootExists \in BOOLEAN
    /\ files = [p \in Paths |-> <<>>]
    /\ mtime = [p \in Paths |-> 0]
    /\ writes = 0
    /\ lastRead = [p \in Paths |-> NeverRead]

Next ==
    \/ EnvWrite
    \/ Start
    \/ BackfillFile
    \/ BackfillDone
    \/ WatchEvent
    \/ ProcessLine
    \/ Sigint
    \/ CloseDone
    \/ ShutdownDone
    \/ Kill

Spec == Init /\ [][Next]_vars

\* The event loop runs every callback that is ready, start() goes on after
\* each await, and the watcher delivers the events it has. Writes and signals
\* are the environment's and may never come.
Fairness ==
    /\ WF_vars(Start)
    /\ WF_vars(BackfillFile)
    /\ WF_vars(BackfillDone)
    /\ WF_vars(WatchEvent)
    /\ WF_vars(ProcessLine)
    /\ WF_vars(CloseDone)
    /\ WF_vars(ShutdownDone)

FairSpec == Spec /\ Fairness

\* ------------------------------------------- direct calls (the test suite)

\* A text longer than the preview, with a line break in it.
LongText == [i \in 1..(PreviewLen + 1) |-> IF i = 2 THEN "\n" ELSE "x"]

Read == ToolUse(<<"R","e","a","d">>)

\* Payload shapes: absent, null, number, boolean, plain string, structured
\* with and without a text field, structured with content blocks.
AllMessages ==
    {NoMessage,
     Payload("null", <<>>, UndefinedVal, <<>>),
     Payload("number", <<"7">>, UndefinedVal, <<>>),
     Payload("boolean", <<"t">>, UndefinedVal, <<>>),
     StringMessage(S_Hello),
     StringMessage(<<>>),
     StringMessage(LongText),
     ObjectMessage(StrVal(S_Hello), <<>>),
     ObjectMessage(StrVal(<<>>), <<>>),
     ObjectMessage(UndefinedVal, <<>>),
     ObjectMessage(NullVal, <<>>),
     ObjectMessage(NumVal(<<"5">>), <<>>),
     ObjectMessage(NumVal(<<"0">>), <<>>),
     ObjectMessage(UndefinedVal, <<Read>>),
     ObjectMessage(UndefinedVal, <<ToolResult(S_hi)>>),
     ObjectMessage(UndefinedVal, <<TextBlock(S_hi), Read>>)}

AllEntries ==
    {Entry(type, uuid, message, timestamp) :
        type \in {"user", "assistant", "system"},
        uuid \in {NoUuid, "m1", "m9"},
        message \in AllMessages,
        timestamp \in {NoTimestamp, 1}}

AllLines == {Line(e) : e \in AllEntries} \cup {Malformed, JsonNull, Blank}

\* The options the tests construct monitors with.
TestArgs == [historyHours : {0}, dryRun : BOOLEAN, quiet : BOOLEAN]

\* A monitor as the tests construct it, and one conversation file that ends
\* with any line at all, after at most one earlier line.
InitDirect ==
    /\ \E args \in TestArgs : Constructed(args)
    /\ config = Configured
    /\ rootExists = TRUE
    /\ \E line \in AllLines, before \in {<<>>} \cup {<<l>> : l \in LinePool} :
          files = [p \in Paths |-> IF p = PathA THEN before \o <<line>>
                                   ELSE <<>>]
    /\ mtime = [p \in Paths |-> IF p = PathA THEN Now ELSE 0]
    /\ writes = 0
    /\ lastRead = [p \in Paths |-> NeverRead]

\* monitor.processConversationFile(p), called directly, any number of times
DirectCall ==
    /\ pc = "new"
    /\ pass = NoPass
    /\ \E p \in DOMAIN files, readOk \in BOOLEAN :
          /\ Exists(p)
          /\ readOk \/ MayFail
          /\ processConversationFile(p, readOk)
    /\ UNCHANGED <<monitorVars, settled, fsVars, pc, conversations, pending,
                   processedMessages, sinkCalls, consoleLog>>

NextDirect ==
    \/ DirectCall
    \/ ProcessLine

SpecDirect == InitDirect /\ [][NextDirect]_vars

\* ------------------------------------- direct calls on paths of any shape

SegColonProject == <<"a",":","b">>
SegC            == <<"c">> \o S_jsonl
SegA            == <<"a">>
SegColonConv    == <<"b",":","c">> \o S_jsonl
SegMyProject    ==
    <<"U","s","e","r","s","-","t","e","s","t","-","D","o","c","u","m","e","n","t","s">> \o
    <<"-","g","i","t","h","u","b","-","m","y","p","r","o","j","e","c","t">>
SegConvAbc      == <<"c","o","n","v","-","a","b","c","-","1","2","3">> \o S_jsonl
SegRandom       == <<"r","a","n","d","o","m">>
SegPath         == <<"p","a","t","h">>
SegFile         == <<"f","i","l","e">> \o S_jsonl

\* <home>/.claude/projects/a:b/c.jsonl
PathColonProject == << <<>>, SegHome, SegDot, S_projects, SegColonProject, SegC >>
\* <home>/.claude/projects/a/b:c.jsonl
PathColonConv == << <<>>, SegHome, SegDot, S_projects, SegA, SegColonConv >>
\* <home>/.claude/projects/Users-test-Documents-github-myproject/conv-abc-123.jsonl
PathMyProject == << <<>>, SegHome, SegDot, S_projects, SegMyProject, SegConvAbc >>
\* /random/path/file.jsonl
PathRandom == << <<>>, SegRandom, SegPath, SegFile >>

\* The paths processConversationFile is called with, and the id of the one
\* entry each file holds.
CalledPaths == <<PathA, PathColonProject, PathMyProject, PathColonConv,
                 PathTop, PathRandom>>
CalledIds == <<"f1", "f2", "f3", "f4", "f5", "f6">>

\* The one line of the i-th file: a user entry, or an assistant entry in
\* every second file.
CalledLine(i) ==
    Line(Entry(IF i % 2 = 1 THEN "user" ELSE "assistant", CalledIds[i],
               StringMessage(S_hi), 1))

CalledArgs == [historyHours : {0}, dryRun : BOOLEAN, quiet : {FALSE}]

\* A monitor, and one file with one entry at each of the paths.
InitPaths ==
    /\ \E args \in CalledArgs : Constructed(args)
    /\ config = Configured
    /\ rootExists = TRUE
    /\ files = [p \in {CalledPaths[i] : i \in 1..Len(CalledPaths)} |->
                   <<CalledLine(IndexOf(CalledPaths, p))>>]
    /\ mtime = [p \in {CalledPaths[i] : i \in 1..Len(CalledPaths)} |-> Now]
    /\ writes = 0
    /\ lastRead = [p \in {CalledPaths[i] : i \in 1..Len(CalledPaths)} |->
                      NeverRead]

SpecPaths == InitPaths /\ [][NextDirect]_vars

\* ----------------------------------------- one long conversation file

\* The ids of the entries of a conversation of eleven messages.
LongIds == <<"n1", "n2", "n3", "n4", "n5", "n6", "n7", "n8", "n9", "n10",
             "n11">>

\* Its lines: the user and the assistant take turns.
LongConversation ==
    [i \in 1..Len(LongIds) |->
        Line(Entry(IF i % 2 = 1 THEN "user" ELSE "assistant", LongIds[i],
                   ObjectMessage(StrVal(S_hi), <<>>), i))]

\* A monitor and the file of that conversation, complete or cut short.
InitLong ==
    /\ \E args \in CalledArgs : Constructed(args)
    /\ config = Configured
    /\ rootExists = TRUE
    /\ \E n \in (FlushEvery - 1)..Len(LongIds) :
          files = [p \in Paths |-> IF p = PathA
                                   THEN SubSeq(LongConversation, 1, n)
                                   ELSE <<>>]
    /\ mtime = [p \in Paths |-> IF p = PathA THEN Now ELSE 0]
    /\ writes = 0
    /\ lastRead = [p \in Paths |-> NeverRead]

SpecLong == InitLong /\ [][NextDirect]_vars

\* ------------------------------------------------ the backfill by itself

SegSub   == <<"s","u","b">>
SegConv3 == <<"c","o","n","v","3">> \o S_jsonl
SegNotes == <<"n","o","t","e","s",".","t","x","t">>

\* <home>/.claude/projects/p2/sub/conv3.jsonl
PathDeep == << <<>>, SegHome, SegDot, S_projects, SegP2, SegSub, SegConv3 >>
\* <home>/.claude/projects/a-b-c/notes.txt
PathNotes == << <<>>, SegHome, SegDot, S_projects, SegABC, SegNotes >>

ScanPaths == {PathA, PathTop, PathDeep, PathNotes}

\* The time one default look-back window ago.
DayAgo == Now - DefaultHistoryHours * MsPerHour

\* bin/claude-langfuse.js:21,31: --history <hours>, one hour or the default
ScanArgs == [historyHours : {1, DefaultHistoryHours}, dryRun : BOOLEAN,
             quiet : {FALSE}]

\* A monitor about to start, and files under the root last modified now, a
\* day ago to the millisecond, just before that, or not there at all.
InitScan ==
    /\ \E args \in ScanArgs : Constructed(args)
    /\ config = Configured
    /\ rootExists = TRUE
    /\ mtime \in [ScanPaths -> {0, DayAgo - 1, DayAgo, Now}]
    /\ files = [p \in ScanPaths |-> IF mtime[p] = 0 THEN <<>>
                                    ELSE <<Line(User1)>>]
    /\ writes = 0
    /\ lastRead = [p \in ScanPaths |-> NeverRead]

\* start() up to the creation of the watcher.
NextScan ==
    \/ Start
    \/ BackfillFile
    \/ ProcessLine
    \/ BackfillDone

SpecScan == InitScan /\ [][NextScan]_vars

\* ------------------------------------------- the commands and the settings

\* index.js:42-57: what ~/.claude-langfuse/config.json can hold (the config
\* command writes the keys it was given, bin/claude-langfuse.js:63-69) and
\* what the environment can hold.
ConfigFiles ==
    {NoConfigFile}
    \cup {ConfigFile(Settings(DefaultHost, pk, sk)) :
             pk \in {UndefinedVal, PublicKey}, sk \in {UndefinedVal, SecretKey}}
Environments ==
    {Settings(UndefinedVal, pk, sk) :
        pk \in {UndefinedVal, StrVal(<<>>), PublicKey},
        sk \in {UndefinedVal, StrVal(<<>>), SecretKey}}

\* bin/claude-langfuse.js:29-33 and 77: the start command and the status
\* command construct the monitor; index.js:315 does with no options.
CommandArgs == [historyHours : {-1, 0}, dryRun : BOOLEAN, quiet : {FALSE}]

InitConfig ==
    /\ \E args \in CommandArgs : Constructed(args)
    /\ \E configFile \in ConfigFiles, env \in Environments :
          config = loadConfig(configFile, env)
    /\ rootExists \in BOOLEAN
    /\ files = [p \in Paths |-> IF p = PathA THEN <<Line(User1)>> ELSE <<>>]
    /\ mtime = [p \in Paths |-> IF p = PathA THEN Now ELSE 0]
    /\ writes = 0
    /\ lastRead = [p \in Paths |-> NeverRead]

\* The status command, or start() up to the first events of the watcher.
NextConfig ==
    \/ CheckStatus
    \/ Start
    \/ BackfillFile
    \/ BackfillDone
    \/ WatchEvent
    \/ ProcessLine

SpecConfig == InitConfig /\ [][NextConfig]_vars

\* ------------------------------------------- a run over two long files

\* How many entries the two conversation files hold, the first file's share
\* included: enough for the processed-id set to reach twenty.
RunEntries == 21
FirstFileEntries == 11

\* The k-th entry: the user and the assistant take turns.
RunLine(k) ==
    Line(Entry(IF k % 2 = 1 THEN "user" ELSE "assistant", "r" \o ToString(k),
               ObjectMessage(StrVal(S_hi), <<>>), k))

\* bin/claude-langfuse.js:29-33: the start command; dryRun as index.js:23
\* takes it.
RunArgs == [historyHours : {-1, 0}, dryRun : BOOLEAN, quiet : {FALSE}]

\* A monitor, and two conversation files under the root; the second one may
\* have been written long before the look-back window.
InitRun ==
    /\ \E args \in RunArgs : Constructed(args)
    /\ config = Configured
    /\ rootExists = TRUE
    /\ files = [p \in Paths |->
                  IF p = PathA THEN [k \in 1..FirstFileEntries |-> RunLine(k)]
                  ELSE IF p = PathB
                  THEN [k \in 1..(RunEntries - FirstFileEntries) |->
                           RunLine(FirstFileEntries + k)]
                  ELSE <<>>]
    /\ \E t \in {OldTime, Now} :
          mtime = [p \in Paths |-> IF p = PathA THEN Now
                                   ELSE IF p = PathB THEN t ELSE 0]
    /\ writes = 0
    /\ lastRead = [p \in Paths |-> NeverRead]

\* The run of the start command on a file system that does not change, and
\* the status command.
NextRun ==
    \/ CheckStatus
    \/ Start
    \/ BackfillFile
    \/ BackfillDone
    \/ WatchEvent
    \/ ProcessLine
    \/ FlushSettled
    \/ Sigint
    \/ CloseDone
    \/ ShutdownDone
    \/ Kill

SpecRun == InitRun /\ [][NextRun]_vars

\* ------------------------------------------------------------- properties

\* A call that hands a record (a trace or a generation) to the sink.
IsRecord(call) == call.op \in {"trace", "generation"}

\* The records forwarded so far, in order.
Forwarded == SelectSeq(sinkCalls, IsRecord)

\* How many records were forwarded for an id.
CountFor(id) ==
    Cardinality({i \in 1..Len(Forwarded) : Forwarded[i].id = id})

\* The loop of processConversationFile is about to handle a line.
AtLine == pass # NoPass /\ pc # "killed"
LineAtHand == pass.lines[pass.i]
\* ... and the line parses to an entry, which goes to processMessage.
AtEntry == AtLine /\ LineAtHand.json = "object"
EntryAtHand == LineAtHand.entry
\* The step is that iteration of the loop.
LineStep == AtLine /\ pass' # pass

\* Every file that exists has been read, without a read error, since it was
\* last written, and the watcher has nothing left to deliver.
AllFilesProcessed ==
    /\ pc = "watching"
    /\ pending = {}
    /\ pass = NoPass
    /\ \A i \in 1..Len(consoleError) :
          consoleError[i].error # "Error processing"

\* C1: at most one record (trace or generation) is ever forwarded for an
\* entry id, and an entry whose id is already recorded forwards nothing and
\* leaves the processed-id set as it is, whatever its payload, kind, file or
\* session.
C1_OneRecordPerId ==
    /\ [](\A i, j \in 1..Len(Forwarded) :
             Forwarded[i].id = Forwarded[j].id => i = j)
    /\ [][(AtEntry /\ EntryAtHand.uuid \in processedMessages /\ LineStep)
            => /\ sinkCalls' = sinkCalls
               /\ processedMessages' = processedMessages]_vars

\* Two files hold entries of different kind, payload and session under the
\* same id; both were processed, and one record was forwarded.
C1_Witness ==
    /\ AllFilesProcessed
    /\ files[PathA] = <<Line(User1)>>
    /\ files[PathB] = <<Line(Assist1)>>
    /\ "m1" \in processedMessages
    /\ CountFor("m1") = 1

\* The files in the expected layout, and the entries of the written lines
\* that are of kind user or assistant and carry an id.
LayoutPaths == {p \in Paths : ~OutsideLayout(p)}
EligibleEntries ==
    {l.entry : l \in {x \in LinePool : x.json = "object"
                                       /\ x.entry.type \in {"user", "assistant"}
                                       /\ x.entry.uuid # NoUuid}}

OnALine(e, p) == \E i \in 1..Len(files[p]) : files[p][i] = Line(e)

\* The run is over, or the sink or a file read has failed.
RunOverOrFault ==
    \/ pc \in {"failed", "killed", "closing", "shutdown", "exited"} \cup Unhandled
    \/ ~rootExists
    \/ consoleError # <<>>

\* The liveness form of C2, for FairSpec: such an entry is eventually
\* forwarded, and exactly once, unless the run ends or the sink or a read
\* fails first.
EventuallyForwardedOnce ==
    \A p \in LayoutPaths, e \in EligibleEntries :
        (OnALine(e, p) /\ ~options.dryRun)
            ~> (CountFor(e.uuid) = 1 \/ RunOverOrFault)

\* C2: with dry-run off and a sink that accepts every call, every user or
\* assistant entry that carries an id and sits on a well-formed line of a
\* file in the expected layout is forwarded exactly once in the run: once
\* the monitor has caught up with every file (backfill, watcher events or
\* both), exactly one record carries the entry's id.
C2_ForwardedOnceWhenCaughtUp ==
    (AllFilesProcessed /\ ~options.dryRun /\ consoleError = <<>>)
        => \A p \in LayoutPaths, e \in EligibleEntries :
               OnALine(e, p) => CountFor(e.uuid) = 1

\* "a/b/c:conv1"
S_abc_conv1 == <<"a","/","b","/","c",":","c","o","n","v","1">>

\* C3: processing <root>/projects/a-b-c/conv1.jsonl, which holds one user
\* line with id m1 and text hi, forwards exactly one record: a trace with id
\* m1, session id md5("a/b/c:conv1") and input hi. And a call of
\* processConversationFile that reads the very lines the file's last
\* completed call read forwards no further record.
C3_EndToEndAndIdempotent ==
    /\ []((/\ AllFilesProcessed
           /\ ~options.dryRun
           /\ consoleError = <<>>
           /\ files[PathA] = <<Line(User1)>>
           /\ files[PathB] = <<>>)
          => /\ Len(Forwarded) = 1
             /\ Forwarded[1].op = "trace"
             /\ Forwarded[1].id = "m1"
             /\ Forwarded[1].sessionId = Md5(S_abc_conv1)
             /\ Forwarded[1].input = S_hi)
    /\ [][(LineStep /\ lastRead[pass.filepath] = WasRead(pass.lines))
            => Forwarded' = Forwarded]_vars

\* The file was processed once, its one trace is forwarded, and a second
\* call on the same content is about to handle the line.
C3_Witness ==
    /\ AtEntry
    /\ pass.filepath = PathA
    /\ pass.lines = <<Line(User1)>>
    /\ lastRead[PathA] = WasRead(pass.lines)
    /\ Len(Forwarded) = 1
    /\ Forwarded[1].op = "trace"
    /\ Forwarded[1].sessionId = Md5(S_abc_conv1)

\* The entry at hand is of kind user or assistant, has an id, and the id is
\* not recorded yet.
NewEntryAtHand ==
    /\ AtEntry
    /\ EntryAtHand.type \in {"user", "assistant"}
    /\ EntryAtHand.uuid # NoUuid
    /\ EntryAtHand.uuid \notin processedMessages

\* C4: processMessage on an entry whose kind is neither user nor assistant
\* changes nothing: not the processed-id set, the session cache or the
\* counters, and nothing is printed or sent to the sink, whatever its id.
C4_IgnoredKindNoEffect ==
    [][(AtEntry /\ LineStep /\ EntryAtHand.type \notin {"user", "assistant"})
         => UNCHANGED <<processedMessages, conversationSessions, messageCount,
                        sinkCalls, consoleLog, consoleError>>]_vars

\* A file whose last line is a system entry with a fresh id was processed to
\* its end, and that id is not recorded.
C4_Witness ==
    /\ lastRead[PathA].read
    /\ pass = NoPass
    /\ LET last == files[PathA][Len(files[PathA])]
       IN /\ last.json = "object"
          /\ last.entry.type = "system"
          /\ last.entry.uuid = "m9"
    /\ "m9" \notin processedMessages

\* C5: processMessage on a user or assistant entry without an id drops it:
\* the processed-id set is unchanged and nothing is forwarded or printed.
C5_NoIdNoEffect ==
    [][(/\ AtEntry /\ LineStep
        /\ EntryAtHand.type \in {"user", "assistant"}
        /\ EntryAtHand.uuid = NoUuid)
         => UNCHANGED <<processedMessages, sinkCalls, consoleLog,
                        consoleError>>]_vars

\* A file holding only a user entry without id was processed to its end.
C5_Witness ==
    /\ lastRead[PathA].read
    /\ pass = NoPass
    /\ Len(files[PathA]) = 1
    /\ files[PathA][1].json = "object"
    /\ files[PathA][1].entry.type = "user"
    /\ files[PathA][1].entry.uuid = NoUuid
    /\ files[PathA][1].entry.message = StringMessage(S_Hello)
    /\ processedMessages = {}

\* C6: in dry-run mode no trace and no generation ever reaches the sink, and
\* every user or assistant entry with a new id is still recorded in the
\* processed-id set.
C6_DryRunRecordsButNeverForwards ==
    /\ [](options.dryRun => Forwarded = <<>>)
    /\ [][(options.dryRun /\ NewEntryAtHand /\ LineStep)
            => processedMessages' =
                   processedMessages \cup {EntryAtHand.uuid}]_vars

\* A dry run has processed two entries under the same id: the id is
\* recorded, one preview was printed, nothing was forwarded.
C6_Witness ==
    /\ options.dryRun
    /\ AllFilesProcessed
    /\ files[PathA] = <<Line(User1), Line(Assist1)>>
    /\ processedMessages = {"m1"}
    /\ Len(consoleLog) = 1
    /\ sinkCalls = <<>>

\* The text carried by a forwarded record.
RecordText(record) ==
    IF record.op = "trace" THEN record.input ELSE record.output

\* The payload shapes C7 speaks of: every shape but a structured payload
\* whose text field is not a string.
C7_Covers(message) ==
    message.shape = "object" => message.text.t \in {"string", "undefined"}

\* The text C7 asks for.
C7_Text(message) ==
    CASE message.shape = "object" /\ message.text.t = "string" -> message.text.s
      [] message.shape = "string" -> message.str
      [] OTHER -> <<>>

\* C7: a structured payload yields its text field (empty text when the
\* field is absent), a plain string yields itself, every other shape (absent,
\* null, number, boolean) yields empty text; that text is the input of the
\* trace or the output of the generation forwarded for the entry.
C7_ExtractedTextIsForwarded ==
    [][(/\ NewEntryAtHand /\ LineStep
        /\ C7_Covers(EntryAtHand.message)
        /\ ~options.dryRun
        /\ consoleError' = consoleError)
         => /\ Len(Forwarded') = Len(Forwarded) + 1
            /\ Forwarded'[Len(Forwarded')].id = EntryAtHand.uuid
            /\ RecordText(Forwarded'[Len(Forwarded')])
                   = C7_Text(EntryAtHand.message)]_vars

\* A plain-string payload was forwarded as the input of a trace.
C7_Witness ==
    /\ Len(files[PathA]) = 1
    /\ files[PathA][1].json = "object"
    /\ files[PathA][1].entry.type = "user"
    /\ files[PathA][1].entry.message = StringMessage(S_Hello)
    /\ Len(Forwarded) = 1
    /\ Forwarded[1].op = "trace"
    /\ Forwarded[1].input = S_Hello

\* sub occurs in chars.
Contains(chars, sub) ==
    \E i \in 1..(Len(chars) - Len(sub) + 1) :
        SubSeq(chars, i, i + Len(sub) - 1) = sub

\* The payload carries a tool-invocation or a tool-result block.
HasToolBlocks(message) ==
    \E i \in 1..Len(message.content) :
        message.content[i].type \in {"tool_use", "tool_result"}

\* C8: when the payload carries tool-invocation or tool-result blocks, the
\* text forwarded for the entry is not empty and names every tool invoked.
C8_ToolBlocksSummarized ==
    [][(/\ NewEntryAtHand /\ LineStep
        /\ HasToolBlocks(EntryAtHand.message)
        /\ Len(Forwarded') = Len(Forwarded) + 1)
         => LET text == RecordText(Forwarded'[Len(Forwarded')])
                blocks == EntryAtHand.message.content
            IN /\ text # <<>>
               /\ \A i \in 1..Len(blocks) :
                     blocks[i].type = "tool_use"
                         => Contains(text, blocks[i].name)]_vars

\* C9: with quiet mode on, no per-message preview line is printed.
C9_QuietPrintsNoPreview ==
    ctorArgs.quiet => consoleLog = <<>>

\* The counters of this.messageCount, read as 0 while the field is not set.
CounterOf(kind) ==
    IF messageCount = Undefined THEN 0 ELSE messageCount[kind]

\* C10: the user counter plus the assistant counter equals the size of the
\* processed-id set in every reachable state.
C10_CountersMatchProcessed ==
    CounterOf("user") + CounterOf("assistant") = Cardinality(processedMessages)

\* C11: the session id resolved for a path is the one resolved the first
\* time: an entry of the session cache, once made, stays and keeps its value
\* through every later call, on that path or on any other, and every call
\* works with the cached id of its path.
C11_SessionIdIsStable ==
    /\ [][\A p \in DOMAIN conversationSessions :
             /\ p \in DOMAIN conversationSessions'
             /\ conversationSessions'[p] = conversationSessions[p]]_vars
    /\ [](pass # NoPass
            => /\ pass.filepath \in DOMAIN conversationSessions
               /\ pass.sessionId = conversationSessions[pass.filepath])

\* A second call on a path is running, after its first call and a call on
\* another path have completed, and it works with md5("a/b/c:conv1").
C11_Witness ==
    /\ pass # NoPass
    /\ pass.filepath = PathA
    /\ lastRead[PathA].read
    /\ lastRead[PathMyProject].read
    /\ pass.sessionId = Md5(S_abc_conv1)
    /\ PathMyProject \in DOMAIN conversationSessions

\* C12: two cached paths whose decoded project paths differ, or whose
\* conversation ids differ, have different session ids (the digest being
\* collision-free).
C12_DistinctPairsDistinctIds ==
    \A p, q \in DOMAIN conversationSessions :
        (\/ ProjectPathOf(p) # ProjectPathOf(q)
         \/ ConversationIdOf(p) # ConversationIdOf(q))
            => conversationSessions[p] # conversationSessions[q]

\* "Users/test/Documents/github/myproject" and that project path followed by
\* ":conv-abc-123"
S_myproject ==
    <<"U","s","e","r","s","/","t","e","s","t","/","D","o","c","u","m","e","n","t","s","/">> \o
    <<"g","i","t","h","u","b","/","m","y","p","r","o","j","e","c","t">>
S_myproject_conv == S_myproject \o <<":","c","o","n","v","-","a","b","c","-","1","2","3">>

\* The segment after the anchor with every '-' turned into '/', and the
\* file's base name without its extension, as C13 words them.
C13_ProjectPath(p) ==
    LET anchor == CHOOSE i \in 1..Len(p) :
                      p[i] = S_projects /\ \A j \in 1..(i - 1) : p[j] # S_projects
        seg == p[anchor + 1]
    IN [i \in 1..Len(seg) |-> IF seg[i] = "-" THEN "/" ELSE seg[i]]
C13_ConversationId(p) ==
    SubSeq(p[Len(p)], 1, Len(p[Len(p)]) - Len(S_jsonl))

\* The path of the file that holds the entry with this id.
PathOfId(id) == CalledPaths[CHOOSE i \in 1..Len(CalledIds) : CalledIds[i] = id]

\* C13: every entry of the session cache maps its path to
\* md5("{projectPath}:{conversationId}"), projectPath being the segment after
\* the anchor with every '-' replaced by '/' and conversationId the base
\* name without extension (Users-test-Documents-github-myproject decodes to
\* Users/test/Documents/github/myproject); a running call hands that session
\* id and that project path to processMessage, and every forwarded record
\* carries them.
C13_CacheHoldsDigestOfDecodedPath ==
    /\ \A p \in DOMAIN conversationSessions :
          conversationSessions[p] =
              Md5(C13_ProjectPath(p) \o <<":">> \o C13_ConversationId(p))
    /\ PathMyProject \in DOMAIN conversationSessions
          => conversationSessions[PathMyProject] = Md5(S_myproject_conv)
    /\ pass # NoPass
          => /\ pass.sessionId = conversationSessions[pass.filepath]
             /\ pass.projectPath = C13_ProjectPath(pass.filepath)
             /\ pass.conversationId = C13_ConversationId(pass.filepath)
    /\ \A i \in 1..Len(Forwarded) :
          LET r == Forwarded[i]
              p == PathOfId(r.id)
          IN /\ r.metadata.project = C13_ProjectPath(p)
             /\ r.metadata.conversationId = C13_ConversationId(p)
             /\ r.op = "trace" => r.sessionId = conversationSessions[p]

\* The file under Users-test-Documents-github-myproject was processed and
\* its user entry forwarded with the decoded project path and the digest.
C13_Witness ==
    /\ lastRead[PathMyProject].read
    /\ \E i \in 1..Len(Forwarded) :
          /\ Forwarded[i].id = "f3"
          /\ Forwarded[i].op = "trace"
          /\ Forwarded[i].metadata.project = S_myproject
          /\ Forwarded[i].sessionId = Md5(S_myproject_conv)

\* The path has no anchor segment, or fewer than two segments follow the
\* (first) anchor segment, as C14 words it.
C14_Outside(p) ==
    \/ \A i \in 1..Len(p) : p[i] # S_projects
    \/ \E i \in 1..Len(p) :
          /\ p[i] = S_projects
          /\ \A j \in 1..(i - 1) : p[j] # S_projects
          /\ Len(p) - i < 2

\* The id of the entry the file at this path holds.
IdOfPath(p) == CalledIds[IndexOf(CalledPaths, p)]

\* C14: a call of processConversationFile on a path without anchor segment,
\* or with fewer than two segments after the anchor, has no effect: no
\* session cache entry is made for the path, the file is not read, none of
\* its entries is dispatched, and nothing is logged as an error.
C14_OutsideLayoutNoEffect ==
    /\ [][\A p \in DOMAIN files :
             (C14_Outside(p) /\ pass = NoPass /\ lastRead'[p] # lastRead[p])
                => /\ UNCHANGED <<conversationSessions, pass, processedMessages,
                                  sinkCalls, consoleLog, consoleError>>
                   /\ ~lastRead'[p].read]_vars
    /\ [](\A p \in DOMAIN files :
             C14_Outside(p)
                => /\ p \notin DOMAIN conversationSessions
                   /\ ~lastRead[p].read
                   /\ pass.filepath # p
                   /\ IdOfPath(p) \notin processedMessages
                   /\ \A i \in 1..Len(consoleError) :
                         consoleError[i] # ReadError(p))

\* Both kinds of path were called, after a file in the expected layout was
\* processed: each holds an entry, and neither entry was dispatched.
C14_Witness ==
    /\ lastRead[PathTop] = Skipped
    /\ lastRead[PathRandom] = Skipped
    /\ lastRead[PathA].read
    /\ files[PathTop] # <<>>
    /\ files[PathRandom] # <<>>
    /\ processedMessages = {"f1"}
    /\ DOMAIN conversationSessions = {PathA}
    /\ consoleError = <<>>

\* The line parses to an entry of kind user or assistant that carries an id.
IsEligibleLine(line) ==
    /\ line.json = "object"
    /\ line.entry.type \in {"user", "assistant"}
    /\ line.entry.uuid # NoUuid

\* C15: a line that fails to parse is skipped and changes nothing, and the
\* call goes on: after every line, parsed or not, the loop moves to the next
\* line and after the last line the call returns normally, so that every
\* well-formed line of a file whose call has ended was dispatched (the id of
\* every user or assistant entry on it is recorded), before or after a
\* malformed line.
C15_MalformedLineSkipped ==
    /\ [][LineStep
            => IF pass.i < Len(pass.lines)
               THEN pass' = [pass EXCEPT !.i = pass.i + 1]
               ELSE /\ pass' = NoPass
                    /\ lastRead'[pass.filepath] = WasRead(pass.lines)]_vars
    /\ [][(LineStep /\ LineAtHand.json = "invalid")
            => UNCHANGED <<processedMessages, conversationSessions, sinkCalls,
                           consoleLog, consoleError>>]_vars
    /\ [](\A p \in DOMAIN files :
             lastRead[p].read
                => \A i \in 1..Len(lastRead[p].lines) :
                      IsEligibleLine(lastRead[p].lines[i])
                         => lastRead[p].lines[i].entry.uuid
                                \in processedMessages)

\* A file holding a malformed line and then a user entry was processed to
\* its end, without an error logged, and the entry's id is recorded.
C15_Witness ==
    /\ pass = NoPass
    /\ Len(files[PathA]) = 2
    /\ files[PathA][1] = Malformed
    /\ IsEligibleLine(files[PathA][2])
    /\ files[PathA][2].entry.uuid = "m9"
    /\ lastRead[PathA] = WasRead(files[PathA])
    /\ processedMessages = {"m9"}
    /\ consoleError = <<>>

\* The only errors logged are file read errors: the sink accepted each call.
OnlyReadErrors ==
    \A i \in 1..Len(consoleError) : consoleError[i].error = "Error processing"

\* C16: a read error aborts only its own call, and the file stays eligible:
\* once a read of the file has failed and a call has processed the file's
\* present content to its end, with dry-run off and a sink that accepts every
\* call, each user or assistant entry with an id on a line of the file has
\* exactly one forwarded record.
C16_RetryAfterReadErrorForwardsAll ==
    \A p \in LayoutPaths :
        (/\ ~options.dryRun
         /\ OnlyReadErrors
         /\ \E i \in 1..Len(consoleError) : consoleError[i] = ReadError(p)
         /\ pass = NoPass
         /\ lastRead[p] = WasRead(NonBlankLines(files[p])))
            => \A e \in EligibleEntries :
                   OnALine(e, p) => CountFor(e.uuid) = 1

\* The ids whose trace or generation call the sink rejected.
RejectedIds ==
    {consoleError[i].id :
        i \in {j \in 1..Len(consoleError) :
                  consoleError[j].error = "Error creating trace"}}

\* C17: a throwing sink call is caught and logged; the id stays recorded and
\* is never forwarded, and nothing else is held up: once the monitor has
\* caught up with every file, with dry-run off and no read error, every id
\* the sink rejected is recorded and has no forwarded record, and every
\* other user or assistant entry with an id on a line of a file has exactly
\* one.
C17_SinkErrorHaltsNothingElse ==
    (/\ AllFilesProcessed
     /\ ~options.dryRun
     /\ RejectedIds # {})
        => /\ \A id \in RejectedIds :
                 id \in processedMessages /\ CountFor(id) = 0
           /\ \A p \in LayoutPaths, e \in EligibleEntries :
                 (OnALine(e, p) /\ e.uuid \notin RejectedIds)
                    => CountFor(e.uuid) = 1

\* How many flushes were requested from the sink so far.
Flushes == Cardinality({i \in 1..Len(sinkCalls) : sinkCalls[i] = FlushCall})

\* C18: with a sink in place (dry-run off), each time processMessage brings
\* the size of the processed-id set to a multiple of ten it requests one
\* flush, and it requests none when it leaves the set at any other size.
C18_FlushAtEveryMultipleOfTen ==
    [][(LineStep /\ ~options.dryRun)
         => Flushes' = Flushes +
               (IF /\ processedMessages' # processedMessages
                   /\ Cardinality(processedMessages') % FlushEvery = 0
                THEN 1 ELSE 0)]_vars

\* C19: a line step forwards at most one record. When it forwards one for a
\* user entry, the record is a trace with the entry's id, the session id of
\* the file, the extracted text as input, the project, conversation id,
\* branch and working directory as metadata, and the entry's timestamp; for
\* an assistant entry it is a generation with the entry's id, the entry's
\* parent id as traceId, the extracted text as output, the project,
\* conversation id and request id as metadata, and the entry's timestamp as
\* startTime and endTime. An entry without timestamp gets the current time.
C19_RecordMapping ==
    /\ [][LineStep => \/ Forwarded' = Forwarded
                      \/ /\ Len(Forwarded') = Len(Forwarded) + 1
                         /\ SubSeq(Forwarded', 1, Len(Forwarded)) = Forwarded
                         /\ NewEntryAtHand]_vars
    /\ [][(LineStep /\ Forwarded' # Forwarded)
            => LET e == EntryAtHand
                   r == Forwarded'[Len(Forwarded')]
                   time == IF e.timestamp = NoTimestamp THEN Now
                           ELSE e.timestamp
               IN /\ r.id = e.uuid
                  /\ r.metadata.project = C13_ProjectPath(pass.filepath)
                  /\ r.metadata.conversationId
                         = C13_ConversationId(pass.filepath)
                  /\ IF e.type = "user"
                     THEN /\ r.op = "trace"
                          /\ r.sessionId = conversationSessions[pass.filepath]
                          /\ r.input = C7_Text(e.message)
                          /\ r.metadata.gitBranch = e.gitBranch
                          /\ r.metadata.cwd = e.cwd
                          /\ r.timestamp = time
                     ELSE /\ e.type = "assistant"
                          /\ r.op = "generation"
                          /\ r.traceId = e.parentUuid
                          /\ r.output = C7_Text(e.message)
                          /\ r.metadata.requestId = e.requestId
                          /\ r.startTime = time
                          /\ r.endTime = time]_vars

\* An assistant entry without timestamp was forwarded as one generation,
\* linked to its parent and stamped with the current time.
C19_Witness ==
    /\ Len(files[PathA]) = 1
    /\ files[PathA][1].json = "object"
    /\ files[PathA][1].entry.type = "assistant"
    /\ files[PathA][1].entry.uuid = "m9"
    /\ files[PathA][1].entry.timestamp = NoTimestamp
    /\ Len(Forwarded) = 1
    /\ Forwarded[1].op = "generation"
    /\ Forwarded[1].id = "m9"
    /\ Forwarded[1].traceId = "parent-of-m9"
    /\ Forwarded[1].startTime = Now
    /\ Forwarded[1].endTime = Now

\* The files a sequence of paths names.
Range(q) == {q[i] : i \in 1..Len(q)}

\* A read of the file was logged as failed.
ReadFailed(p) ==
    \E i \in 1..Len(consoleError) : consoleError[i] = ReadError(p)

\* C20: the history scan returns exactly the .jsonl files at any depth under
\* the root whose last-modified time is at or after now minus the look-back
\* window, each once; the backfill loop calls processConversationFile on
\* each returned file in turn, and when the loop is over the files a call
\* was made on are exactly those.
C20_BackfillScope ==
    /\ [][(pc = "new" /\ pc' = "backfill")
            => /\ Range(conversations') = RecentConversations
               /\ Len(conversations') = Cardinality(RecentConversations)]_vars
    /\ [][(pc = "backfill" /\ conversations' # conversations)
            => /\ conversations' = Tail(conversations)
               /\ LET p == Head(conversations)
                  IN \/ pass'.filepath = p
                     \/ lastRead'[p] = Skipped
                     \/ consoleError' = Append(consoleError, ReadError(p))]_vars
    /\ []((pc = "backfill" /\ conversations = <<>> /\ pass = NoPass)
            => \A p \in DOMAIN files :
                  (lastRead[p] # NeverRead \/ ReadFailed(p))
                      <=> p \in RecentConversations)

\* With a window of a day, the backfill loop is over: the file modified a
\* day ago to the millisecond and the recent file three levels down were
\* processed, the file modified a millisecond earlier and the recent file
\* that is no .jsonl file were not.
C20_Witness ==
    /\ pc = "backfill"
    /\ conversations = <<>>
    /\ pass = NoPass
    /\ options.historyHours = DefaultHistoryHours
    /\ mtime[PathA] = DayAgo
    /\ mtime[PathDeep] = Now
    /\ mtime[PathTop] = DayAgo - 1
    /\ mtime[PathNotes] = Now
    /\ lastRead[PathA].read
    /\ lastRead[PathDeep].read
    /\ lastRead[PathTop] = NeverRead
    /\ lastRead[PathNotes] = NeverRead

(* C21: the history scan is started, once and at startup, exactly when the
   configured lookback window is positive; with a configured window of zero
   or below, start() skips the backfill and goes straight to watching. *)
C21_BackfillIffPositiveWindow ==
    [][(pc = "new" /\ pc' # "new" /\ rootExists)
          => /\ (pc' = "backfill") <=> (ctorArgs.historyHours > 0)
             /\ (pc' = "watching") <=> (ctorArgs.historyHours <= 0)]_vars

(* C22: when the backfill runs, the watcher is created only after the loop
   over the scanned files is over: the list is used up one file at a time,
   each file's call is made when no other pass is running, the watcher
   appears when the list is empty and the last pass has ended, and no
   watcher event exists, let alone is handled, before that. *)
C22_BackfillBeforeWatching ==
    [][/\ (pc = "backfill" /\ pc' = "watching")
             => (conversations = <<>> /\ pass = NoPass)
       /\ (pc' \in {"new", "backfill"}) => (pending' = {})
       /\ (pc = "backfill" /\ pass # NoPass)
             => (conversations' = conversations /\ pc' # "watching")
       /\ (pc = "backfill" /\ conversations' # conversations)
             => LET h == Head(conversations)
                IN /\ conversations' = Tail(conversations)
                   /\ \/ lastRead'[h] # NeverRead
                      \/ (pass' # NoPass /\ pass'.filepath = h)
                      \/ consoleError' = Append(consoleError, ReadError(h))]_vars

\* The backfill has read two files to the end; the watcher exists and none
\* of its events has been handled yet.
C22_Witness ==
    /\ pc = "watching"
    /\ ctorArgs.historyHours = 0
    /\ pending = {PathA, PathB}
    /\ lastRead[PathA].read /\ Len(lastRead[PathA].lines) > 0
    /\ lastRead[PathB].read /\ Len(lastRead[PathB].lines) > 0

(* C23: with the root directory missing, start() fails before any backfill
   pass and before the watcher is created: the only step the program takes
   is the one to "failed" (the rejection that both entry points answer with
   process.exit(1)), with no file scanned, read or processed, no watcher
   event, and nothing recorded or forwarded. *)
C23_MissingRootIsFatal ==
    /\ [](~rootExists =>
            /\ pc \in {"new", "failed"}
            /\ conversations = <<>> /\ pending = {} /\ pass = NoPass
            /\ \A p \in DOMAIN lastRead : lastRead[p] = NeverRead
            /\ conversationSessions = <<>>
            /\ processedMessages = {} /\ sinkCalls = <<>>)
    /\ [][/\ (~rootExists /\ pc = "new" /\ pc' # "new") => (pc' = "failed")
          /\ (pc = "failed") => (pc' = "failed")]_vars

\* start() has failed on the missing directory
C23_Witness ==
    /\ ~rootExists
    /\ pc = "failed"

(* C24: missing sink credentials are fatal at watch-mode startup: with the
   public key or the secret key absent, start() ends in failure and no file
   is scanned, read or processed and no watcher is created. *)
C24_MissingCredentialsAreFatal ==
    (~HasCredentials) =>
        /\ pc \in {"new", "failed", "status"}
        /\ conversations = <<>> /\ pending = {} /\ pass = NoPass
        /\ \A p \in DOMAIN lastRead : lastRead[p] = NeverRead
        /\ processedMessages = {} /\ sinkCalls = <<>>

\* The lines checkStatus printed, in order.
StatusPrinted == [i \in 1..Len(consoleLog) |-> consoleLog[i].status]

(* C25: the status check ends without raising and reports by case. With the
   root directory missing it says so and stops before looking at the
   credentials; with the root present and a key missing it says the
   credentials are not configured and stops; it reports readiness exactly
   when the root exists and both keys are present. It prints nothing on the
   error stream and touches nothing else. *)
C25_StatusCheckReportsAndStops ==
    [][(pc = "new" /\ pc' = "status") =>
          LET out == StatusPrinted'
              said(text) == \E i \in 1..Len(out) : out[i] = text
          IN /\ consoleError' = consoleError
             /\ UNCHANGED <<sinkCalls, processedMessages, lastRead, pending,
                            conversations, pass>>
             /\ said("Claude projects directory not found") <=> ~rootExists
             /\ ~rootExists =>
                   /\ ~said("Langfuse credentials configured")
                   /\ ~said("Langfuse credentials not configured")
                   /\ out[Len(out)] = "Claude projects directory not found"
             /\ said("Langfuse credentials not configured")
                   <=> (rootExists /\ ~(/\ Truthy(config.publicKey)
                                        /\ Truthy(config.secretKey)))
             /\ said("Langfuse credentials not configured")
                   => out[Len(out)] = "Run: claude-langfuse config"
             /\ said("Monitor ready to run")
                   <=> (/\ rootExists
                        /\ Truthy(config.publicKey)
                        /\ Truthy(config.secretKey))]_vars

\* The status check has reported a missing secret key, with the root present
\* and the public key configured.
C25_Witness ==
    /\ pc = "status"
    /\ rootExists
    /\ Truthy(config.publicKey) /\ ~Truthy(config.secretKey)
    /\ consoleLog[Len(consoleLog)] = StatusLine("Run: claude-langfuse config")

(* C26: only the initial configuration check can end the process with a
   failure: start() fails only on the missing projects directory, and no
   error of the history scan, of a file pass, of parsing or of forwarding
   takes the program to its failed end. *)
C26_OnlyConfigurationCheckIsFatal ==
    [][(pc' = "failed" /\ pc # "failed") => (pc = "new" /\ ~rootExists)]_vars

\* The interrupt handler is running or has run.
Stopping == pc \in {"closing", "shutdown", "exited"} \cup Unhandled

(* C27: on interrupt the watcher is closed first: from the moment the
   handler has called close no file pass begins and no event is pending.
   The sink's shutdownAsync, the handshake that carries the final flush, is
   called only once the close has completed, and it is the last call the
   sink receives. The program's exit comes only after the handshake has
   completed (with dry-run there is no sink, and it comes after the
   close). *)
C27_ShutdownOrdering ==
    /\ [](Stopping => (pass = NoPass /\ pending = {}))
    /\ [][/\ Stopping =>
                UNCHANGED <<pass, pending, lastRead, conversationSessions,
                            processedMessages, consoleLog>>
          /\ (pc = "watching" /\ pc' # "watching") => (pc' = "closing")
          /\ (sinkCalls' # sinkCalls /\ sinkCalls'[Len(sinkCalls')] = ShutdownCall)
                => (/\ pc = "closing" /\ pc' = "shutdown"
                    /\ sinkCalls' = Append(sinkCalls, ShutdownCall))
          /\ (Stopping /\ sinkCalls' # sinkCalls) => (pc = "closing")
          /\ (pc' = "exited" /\ pc # "exited")
                => IF HasLangfuse
                   THEN /\ pc = "shutdown"
                        /\ sinkCalls # <<>>
                        /\ sinkCalls[Len(sinkCalls)] = ShutdownCall
                   ELSE pc = "closing"]_vars

\* The process has exited after forwarding a record and shutting the sink.
C27_Witness ==
    /\ pc = "exited"
    /\ Len(sinkCalls) >= 2
    /\ IsRecord(sinkCalls[1])
    /\ sinkCalls[Len(sinkCalls)] = ShutdownCall

(* C28: shutdown errors are best-effort: when closing the watcher or the
   sink's shutdown handshake fails, the handler goes on to its exit all
   the same, so a shutdown once begun moves only from the close to the
   handshake or the exit, and from the handshake to the exit. *)
C28_ShutdownErrorsLoggedThenExit ==
    [][(pc \in {"closing", "shutdown"} /\ pc' # pc)
          => \/ pc' = "shutdown" /\ pc = "closing"
             \/ pc' = "exited"]_vars

(* C29: a file pass is atomic with respect to every other event of the
   program: while a pass is running, every step the program takes is the
   next line of that pass; no watcher event is handled, no other pass
   begins, the backfill loop does not move on, and neither the interrupt
   handler nor an interrupt ends the pass before its last line. *)
C29_PassesAreAtomic ==
    [][(pass # NoPass /\ <<pc, pass, conversations>> # <<pc, pass, conversations>>')
          => /\ pc' = pc
             /\ conversations' = conversations
             /\ pending \subseteq pending'
             /\ IF pass.i = Len(pass.lines)
                THEN pass' = NoPass /\ lastRead'[pass.filepath] = WasRead(pass.lines)
                ELSE pass' = [pass EXCEPT !.i = pass.i + 1]]_vars

(* C30: the local echo step of processMessage never raises: for every new
   user or assistant entry with an id, whatever the shape of its payload
   and the type of its text field, the step prints one preview line and the
   entry goes on to the forwarding step, so that with dry-run off the sink
   is called for it or its rejection is logged. *)
C30_EchoNeverRaises ==
    [][(NewEntryAtHand /\ LineStep)
          => /\ Len(consoleLog') = Len(consoleLog) + 1
             /\ ~options.dryRun
                   => \/ /\ Len(sinkCalls') > Len(sinkCalls)
                         /\ sinkCalls'[Len(sinkCalls) + 1].id = EntryAtHand.uuid
                      \/ consoleError' =
                            Append(consoleError, TraceError(EntryAtHand))]_vars

(* C31: an entry's id is recorded before any further work on it: the id of
   every record the sink ever received, and of every rejected sink call, is
   in the processed-id set; and a step that prints an entry's preview or
   calls the sink for it leaves the entry's id in the set. *)
C31_RecordedBeforeFurtherWork ==
    /\ [](/\ \A i \in 1..Len(Forwarded) : Forwarded[i].id \in processedMessages
          /\ RejectedIds \subseteq processedMessages)
    /\ [][(LineStep /\ AtEntry /\ <<consoleLog, sinkCalls>>' # <<consoleLog, sinkCalls>>)
             => /\ EntryAtHand.uuid \in processedMessages'
                /\ EntryAtHand.uuid \notin processedMessages]_vars

\* A trace and a generation were forwarded, both ids recorded.
C31_Witness ==
    /\ Len(Forwarded) >= 1
    /\ Len(consoleLog) >= 1
    /\ \E i \in 1..Len(Forwarded) : Forwarded[i].id \in processedMessages

(* C32: the two caches of the run only grow: no step (a file pass, the
   handling of a message, a rejected sink call, a failed read, a flush or
   its settling, the status check, the shutdown) removes an id from the
   processed-id set, and none removes or changes an entry of the session
   cache. *)
C32_CachesOnlyGrow ==
    [][/\ processedMessages \subseteq processedMessages'
       /\ \A p \in DOMAIN conversationSessions :
             /\ p \in DOMAIN conversationSessions'
             /\ conversationSessions'[p] = conversationSessions[p]]_vars

\* Both files were processed, a fault was logged and a flush has settled.
C32_Witness ==
    /\ Cardinality(processedMessages) = RunEntries
    /\ DOMAIN conversationSessions = {PathA, PathB}
    /\ consoleError # <<>>
    /\ settled >= 1

(* C33: the periodic flush is requested without being awaited, and its
   outcome touches nothing: a step in which a flush promise settles,
   fulfilled or rejected, leaves the processed-id set as it is and leaves
   the run where it was, so later entries are still handled and forwarded. *)
C33_FlushOutcomeTouchesNothing ==
    [][(settled' # settled)
          => /\ processedMessages' = processedMessages
             /\ pc' = pc]_vars

\* The record was made by a pass of the file at the path: it carries the
\* file's project path and conversation id.
FromFile(record, p) ==
    /\ ~OutsideLayout(p)
    /\ record.metadata.project = ProjectPathOf(p)
    /\ record.metadata.conversationId = ConversationIdOf(p)

\* The first line of the file with a user or assistant entry of the id.
FirstLineOf(p, id) ==
    CHOOSE i \in 1..Len(files[p]) :
       /\ IsEligibleLine(files[p][i]) /\ files[p][i].entry.uuid = id
       /\ \A j \in 1..(i - 1) :
             ~(IsEligibleLine(files[p][j]) /\ files[p][j].entry.uuid = id)

(* C34: records reach the sink in the order of the file's lines. The sink's
   sequence of calls only grows at its end, a step of a pass hands over the
   record of the line at hand and of no other, and of two records made from
   the same file, in one pass or in passes before and after an append, the
   one forwarded first belongs to the earlier line. *)
C34_ForwardedInLineOrder ==
    /\ [][/\ Len(sinkCalls') >= Len(sinkCalls)
          /\ SubSeq(sinkCalls', 1, Len(sinkCalls)) = sinkCalls
          /\ \A k \in (Len(sinkCalls) + 1)..Len(sinkCalls') :
                IsRecord(sinkCalls'[k])
                   => /\ AtEntry
                      /\ sinkCalls'[k].id = EntryAtHand.uuid
                      /\ FromFile(sinkCalls'[k], pass.filepath)]_vars
    /\ [](\A p \in DOMAIN files : \A x, y \in 1..Len(Forwarded) :
             (x < y /\ FromFile(Forwarded[x], p) /\ FromFile(Forwarded[y], p))
                => FirstLineOf(p, Forwarded[x].id) < FirstLineOf(p, Forwarded[y].id))

\* Two records were made from the two lines of one file, the file read to
\* its end.
C34_Witness ==
    /\ Len(Forwarded) = 2
    /\ FromFile(Forwarded[1], PathA) /\ FromFile(Forwarded[2], PathA)
    /\ Forwarded[1].id = "m2" /\ Forwarded[2].id = "m1"
    /\ lastRead[PathA] = WasRead(files[PathA])

\* The backfill leaves the file out: it is skipped altogether, or the file
\* was last modified before the cutoff.
OutsideLookback(p) ==
    /\ Exists(p)
    /\ options.historyHours <= 0 \/ mtime[p] < CutoffTime

(* C35: the look-back window does not bound what the run forwards. The
   watcher has an initial event for every matching file, so once the
   monitor has caught up, with dry-run off and no failure logged, every
   conversation file that the backfill left out has been read to its end
   and every user or assistant entry with an id on its lines has a
   forwarded record. *)
C35_WindowDoesNotBoundForwarding ==
    (AllFilesProcessed /\ ~options.dryRun /\ consoleError = <<>>)
        => \A p \in LayoutPaths :
              OutsideLookback(p)
                 => /\ lastRead[p] = WasRead(files[p])
                    /\ \A e \in EligibleEntries :
                          OnALine(e, p) => CountFor(e.uuid) >= 1

(* C36: in dry-run mode no operation of the sink happens during the run: no
   trace, no generation, no flush whatever the size of the processed-id
   set, and no shutdown handshake on interrupt: the sink's call sequence
   stays empty, no flush is outstanding, and the handler goes from the
   closed watcher straight to the exit. *)
C36_DryRunNeverTouchesSink ==
    /\ [](options.dryRun => (sinkCalls = <<>> /\ Outstanding = 0 /\ pc # "shutdown"))
    /\ [][(options.dryRun /\ pc = "closing" /\ pc' # "closing")
             => pc' \in {"exited"} \cup Unhandled]_vars

\* A dry run has recorded all the entries of both files, passing the sizes
\* ten and twenty, and has exited on interrupt.
C36_Witness ==
    /\ options.dryRun
    /\ pc = "exited"
    /\ Cardinality(processedMessages) = RunEntries
    /\ Len(consoleLog) = RunEntries
    /\ sinkCalls = <<>>

\* processMessage on the entry throws while it builds the preview: the text
\* it extracted is no string (index.js:223).
ThrowsAtEcho(entry) == ExtractText(entry.message).t # "string"

(* C37: an exception raised in processMessage after the id was recorded is
   swallowed by the per-line handler: the step records the id, prints
   nothing, logs no error and hands nothing to the sink, the loop goes on
   to the next line or returns after the last one, and the id stays
   recorded without a record ever forwarded for it. *)
C37_ThrowAfterRecordingIsSwallowed ==
    /\ [][(LineStep /\ NewEntryAtHand /\ ThrowsAtEcho(EntryAtHand))
             => /\ processedMessages' = processedMessages \cup {EntryAtHand.uuid}
                /\ UNCHANGED <<sinkCalls, consoleLog, consoleError>>
                /\ pass' = IF pass.i = Len(pass.lines) THEN NoPass
                           ELSE [pass EXCEPT !.i = pass.i + 1]]_vars
    /\ []("m3" \in processedMessages => CountFor("m3") = 0)

\* The first line's entry threw and left its id behind; the second line's
\* entry was forwarded and the call returned.
C37_Witness ==
    /\ ~options.dryRun
    /\ files[PathA] = <<Line(UserNum3), Line(Entry("user", "m1", StringMessage(S_Hello), 1))>>
    /\ lastRead[PathA] = WasRead(files[PathA])
    /\ processedMessages = {"m3", "m1"}
    /\ CountFor("m3") = 0 /\ CountFor("m1") = 1
    /\ consoleError = <<>>

(* C38: the interrupt handler is installed only after the backfill is over
   and the watcher exists: the handler starts from watching and from
   nowhere else. An interrupt during the backfill ends the run on the spot:
   the sink gets no shutdown handshake and no further call, and no flush
   settles after it. *)
C38_NoHandlerDuringBackfill ==
    /\ [][/\ (pc' = "closing" /\ pc # "closing") => (pc = "watching")
          /\ (pc = "backfill" /\ pc' \notin {"backfill", "watching"})
                => (pc' = "killed" /\ UNCHANGED <<sinkCalls, settled>>)
          /\ (pc = "killed")
                => (pc' = "killed" /\ UNCHANGED <<sinkCalls, settled, pass>>)]_vars
    /\ [](pc = "killed" =>
             \A i \in 1..Len(sinkCalls) : sinkCalls[i] # ShutdownCall)

\* The run was interrupted during the backfill with records handed to the
\* sink, no flush requested for the last of them and one flush unsettled.
C38_Witness ==
    /\ pc = "killed"
    /\ Len(Forwarded) > FlushEvery
    /\ sinkCalls[Len(sinkCalls)] # FlushCall
    /\ Outstanding = 1

====
